---- MODULE Spec2Model ----
(***************************************************************************)
(* A model of win32-com-cli (src/src/main.rs): a command-line bridge that  *)
(* decodes a JSON call descriptor from standard input, creates the COM     *)
(* automation object it names, puts every property, invokes the method and *)
(* reads the ErrorCode property.                                           *)
(*                                                                         *)
(* Two specifications share the module:                                    *)
(*   Spec         the run of main(): decode, execute, exit;                *)
(*   MarshalSpec  value_to_variant applied to one serde_json Value, and    *)
(*                get_property's string conversion applied to the result.  *)
(***************************************************************************)
EXTENDS Integers, Sequences, FiniteSets, TLC

VARIABLES
    pc,          \* position of main()/execute()
    stdin,       \* the document on standard input
    call,        \* the decoded ComMethodCall (NoCall before decoding)
    remaining,   \* keys of call.properties the for loop has not yet yielded
    apartment,   \* the process-wide COM context: none/initialized/failed/uninitialized
    handle,      \* obj: IDispatch: none/held/released
    comCalls,    \* every call made to the COM runtime or to obj, in order
    stdout,      \* lines printed with println!
    stderr,      \* lines printed with eprintln! (and the error main returns)
    error_code,  \* the String get_property returned to execute
    err,         \* the Err a step returned ("none" while no step has failed)
    mpc,         \* MarshalSpec: position
    mval,        \* MarshalSpec: the serde_json Value given to value_to_variant
    mvar,        \* MarshalSpec: the VARIANT it returned
    mstr         \* MarshalSpec: the Result<String> of get_property's conversion

vars == <<pc, stdin, call, remaining, apartment, handle, comCalls, stdout,
          stderr, error_code, err, mpc, mval, mvar, mstr>>

driverVars == <<pc, stdin, call, remaining, apartment, handle, comCalls, stdout,
                error_code, err>>

marshalVars == <<mpc, mval, mvar, mstr>>

(***************************************************************************)
(* Bounds.                                                                 *)
(***************************************************************************)
\* the largest number of members of the input's "properties" object
MaxProps == 2

(***************************************************************************)
(* 64-bit integers.  TLC's integers are 32 bits wide, so a 64-bit word is  *)
(* four 16-bit limbs <<l3, l2, l1, l0>>, most significant first; an i64 is *)
(* held in two's complement.                                               *)
(***************************************************************************)
LimbBase == 2^16

LimbTop == 2^15

\* the limb values the inputs are built from
LimbVals == {0, 5, LimbTop - 1, LimbTop, LimbBase - 1}

Words64 == {<<a, b, c, d>> : a \in LimbVals, b \in {0, LimbBase - 1}, c \in LimbVals, d \in LimbVals}

(***************************************************************************)
(* serde_json::Value.  A Number is serde_json's N: PosInt(u64),            *)
(* NegInt(i64) (always negative) or Float(f64); an f64 is modelled by the  *)
(* number of halves it holds (3 is 1.5, 10 is 5.0).  Strings are sequences *)
(* of characters.                                                          *)
(***************************************************************************)
NoLimbs == <<0, 0, 0, 0>>

JString(s) == [kind |-> "String", repr |-> "-", s |-> s, limbs |-> NoLimbs, halves |-> 0, b |-> FALSE]

JPosInt(w) == [kind |-> "Number", repr |-> "PosInt", s |-> <<>>, limbs |-> w, halves |-> 0, b |-> FALSE]

JNegInt(w) == [kind |-> "Number", repr |-> "NegInt", s |-> <<>>, limbs |-> w, halves |-> 0, b |-> FALSE]

JFloat(h) == [kind |-> "Number", repr |-> "Float", s |-> <<>>, limbs |-> NoLimbs, halves |-> h, b |-> FALSE]

JBool(b) == [kind |-> "Bool", repr |-> "-", s |-> <<>>, limbs |-> NoLimbs, halves |-> 0, b |-> b]

JNull == [kind |-> "Null", repr |-> "-", s |-> <<>>, limbs |-> NoLimbs, halves |-> 0, b |-> FALSE]

\* an array or an object, with the text of its content
JArray(s) == [kind |-> "Array", repr |-> "-", s |-> s, limbs |-> NoLimbs, halves |-> 0, b |-> FALSE]

JObject(s) == [kind |-> "Object", repr |-> "-", s |-> s, limbs |-> NoLimbs, halves |-> 0, b |-> FALSE]

\* the Values MarshalSpec draws from
Values ==
    {JPosInt(w) : w \in Words64}
    \cup {JNegInt(w) : w \in {x \in Words64 : x[1] >= LimbTop}}
    \cup {JFloat(h) : h \in {-3, 3, 10, 200}}
    \cup {JString(<<>>), JString(<<"b">>), JString(<<"4", "2">>)}
    \cup {JBool(TRUE), JBool(FALSE), JNull}
    \cup {JArray(<<>>), JArray(<<"1">>), JObject(<<>>), JObject(<<"k", "1">>)}

(***************************************************************************)
(* VARIANT: the tagged value handed to IDispatch::Invoke.                  *)
(***************************************************************************)
VEmpty == [vt |-> "VT_EMPTY", s |-> <<>>, i |-> 0, halves |-> 0, b |-> FALSE]

VBstr(s) == [vt |-> "VT_BSTR", s |-> s, i |-> 0, halves |-> 0, b |-> FALSE]

VI4(i) == [vt |-> "VT_I4", s |-> <<>>, i |-> i, halves |-> 0, b |-> FALSE]

VR8(h) == [vt |-> "VT_R8", s |-> <<>>, i |-> 0, halves |-> h, b |-> FALSE]

VBool(b) == [vt |-> "VT_BOOL", s |-> <<>>, i |-> 0, halves |-> 0, b |-> b]

\* Number::is_i64: a PosInt no larger than i64::MAX, or any NegInt
is_i64(n) ==
    \/ n.repr = "PosInt" /\ n.limbs[1] < LimbTop
    \/ n.repr = "NegInt"

\* Number::is_f64
is_f64(n) == n.repr = "Float"

\* (a variant of AsI32 that narrows to 16 bits)
AsI32_keep16(w) == IF w[4] >= LimbTop THEN w[4] - LimbBase ELSE w[4]

\* `i as i32` for an i64 i: the low 32 bits, read as two's complement
AsI32(w) ==
    IF w[3] >= LimbTop
    THEN (w[3] - LimbBase) * LimbBase + w[4]
    ELSE w[3] * LimbBase + w[4]

WarnNumber == "Warning: Unsupported number type in JSON, defaulting to empty VARIANT."

WarnNull == "Warning: Unable to set NULL as a VARIANT"

WarnArray == "Warning: JSON Array type is not directly supported"

WarnObject == "Warning: JSON Object type is not directly supported"

\* (a variant of value_to_variant that hands an array's text on as a string)
value_to_variant_forward(value) ==
    CASE value.kind = "String" -> [variant |-> VBstr(value.s), diag |-> <<>>]
      [] value.kind = "Number" ->
            IF is_i64(value)
            THEN [variant |-> VI4(AsI32(value.limbs)), diag |-> <<>>]
            ELSE IF is_f64(value)
            THEN [variant |-> VR8(value.halves), diag |-> <<>>]
            ELSE [variant |-> VEmpty, diag |-> <<WarnNumber>>]
      [] value.kind = "Bool" -> [variant |-> VBool(value.b), diag |-> <<>>]
      [] value.kind = "Null" -> [variant |-> VEmpty, diag |-> <<WarnNull>>]
      [] value.kind = "Array" -> [variant |-> VBstr(value.s), diag |-> <<WarnArray>>]
      [] value.kind = "Object" -> [variant |-> VEmpty, diag |-> <<WarnObject>>]

\* value_to_variant: the VARIANT returned and the lines written with eprintln!
value_to_variant(value) ==
    CASE value.kind = "String" -> [variant |-> VBstr(value.s), diag |-> <<>>]
      [] value.kind = "Number" ->
            IF is_i64(value)
            THEN [variant |-> VI4(AsI32(value.limbs)), diag |-> <<>>]
            ELSE IF is_f64(value)
            THEN [variant |-> VR8(value.halves), diag |-> <<>>]
            ELSE [variant |-> VEmpty, diag |-> <<WarnNumber>>]
      [] value.kind = "Bool" -> [variant |-> VBool(value.b), diag |-> <<>>]
      [] value.kind = "Null" -> [variant |-> VEmpty, diag |-> <<WarnNull>>]
      [] value.kind = "Array" -> [variant |-> VEmpty, diag |-> <<WarnArray>>]
      [] value.kind = "Object" -> [variant |-> VEmpty, diag |-> <<WarnObject>>]

(***************************************************************************)
(* Decimal text.                                                           *)
(***************************************************************************)
Digits == <<"0", "1", "2", "3", "4", "5", "6", "7", "8", "9">>

RECURSIVE NatToDec(_)
NatToDec(n) == IF n < 10 THEN <<Digits[n + 1]>> ELSE NatToDec(n \div 10) \o <<Digits[(n % 10) + 1]>>

\* the decimal text of a 32-bit signed integer (its last digit is split off
\* first, so that -2^31 is never negated)
ToDecimal(i) ==
    IF i >= 0
    THEN NatToDec(i)
    ELSE LET d == (10 - (i % 10)) % 10
             rest == 0 - ((i + d) \div 10)
         IN  <<"-">> \o (IF rest = 0 THEN <<>> ELSE NatToDec(rest)) \o <<Digits[d + 1]>>

\* the text of an f64 held as a number of halves
FloatText(h) ==
    LET a == IF h < 0 THEN 0 - h ELSE h
    IN  (IF h < 0 THEN <<"-">> ELSE <<>>) \o NatToDec(a \div 2)
        \o (IF a % 2 = 1 THEN <<".", "5">> ELSE <<>>)

\* the text VariantToString makes of a VARIANT
VariantText(v) ==
    CASE v.vt = "VT_BSTR" -> v.s
      [] v.vt = "VT_I4" -> ToDecimal(v.i)
      [] v.vt = "VT_R8" -> FloatText(v.halves)
      [] v.vt = "VT_BOOL" -> IF v.b THEN <<"-", "1">> ELSE <<"0">>
      [] v.vt = "VT_EMPTY" -> <<>>

Take(s, n) == SubSeq(s, 1, IF n < Len(s) THEN n ELSE Len(s))

\* VariantToString(&result, buf): the outcomes of the call on a buffer of
\* Len(buf) characters.  The text and its terminator are written when they
\* fit; when they do not, the call fails or writes what fits.
VariantToString(v, buf) ==
    LET text == VariantText(v)
    IN  IF Len(text) + 1 <= Len(buf)
        THEN {[ok |-> TRUE, buf |-> text]}
        ELSE {[ok |-> FALSE, buf |-> buf],
              [ok |-> TRUE, buf |-> Take(text, Len(buf))]}

\* BSTR::default()
BstrDefault == <<>>

\* the tail of get_property: bstr_val is the empty BSTR, the buffer handed to
\* VariantToString is the temporary bstr_val.to_vec(), and the String returned
\* is bstr_val's
get_property_convert(result) ==
    LET bstr_val == BstrDefault
        tmp == bstr_val
    IN  {[ok |-> r.ok, s |-> IF r.ok THEN bstr_val ELSE <<>>] : r \in VariantToString(result, tmp)}

NoString == [ok |-> FALSE, s |-> <<>>]

(***************************************************************************)
(* MarshalSpec: value_to_variant on one Value, then get_property's         *)
(* conversion on the VARIANT it returned.                                  *)
(***************************************************************************)
MarshalInit ==
    /\ mpc = "value"
    /\ mval \in Values
    /\ mvar = VEmpty
    /\ mstr = NoString
    /\ stderr = <<>>
    /\ pc = "idle"
    /\ stdin = <<>>
    /\ call = <<>>
    /\ remaining = {}
    /\ apartment = "none"
    /\ handle = "none"
    /\ comCalls = <<>>
    /\ stdout = <<>>
    /\ error_code = <<>>
    /\ err = "none"

Marshal ==
    /\ mpc = "value"
    /\ LET m == value_to_variant(mval)
       IN  /\ mvar' = m.variant
           /\ stderr' = stderr \o m.diag
    /\ mpc' = "variant"
    /\ UNCHANGED <<mval, mstr>>
    /\ UNCHANGED driverVars

Unmarshal ==
    /\ mpc = "variant"
    /\ mstr' \in get_property_convert(mvar)
    /\ mpc' = "string"
    /\ UNCHANGED <<mval, mvar, stderr>>
    /\ UNCHANGED driverVars

MarshalNext == Marshal \/ Unmarshal

MarshalSpec == MarshalInit /\ [][MarshalNext]_vars

(***************************************************************************)
(* Spec: one run of main().                                                *)
(***************************************************************************)
ProgIds == {"X.Y"}

Methods == {"Cancel"}

PropNames == {"A", "N", "F"}

\* the property values the runs draw from
PropValues == {JString(<<"b">>), JPosInt(<<0, 0, 0, 5>>), JFloat(3), JBool(TRUE), JNull}

\* the VARIANTs the target may return for ErrorCode
StatusVariants == {VI4(0), VBstr(<<"7">>)}

\* the members of a "properties" object, in the order of the document
Members == [name : PropNames, value : PropValues]

RECURSIVE SeqsUpTo(_, _)
SeqsUpTo(S, n) ==
    IF n = 0
    THEN {<<>>}
    ELSE LET shorter == SeqsUpTo(S, n - 1)
         IN  shorter \cup {Append(s, x) : s \in {q \in shorter : Len(q) = n - 1}, x \in S}

Names(ms) == {ms[i].name : i \in DOMAIN ms}

\* documents whose "properties" object holds each name at most once
Documents ==
    {[ok |-> TRUE, prog_id |-> p, method |-> m, properties |-> ms] :
        p \in ProgIds, m \in Methods,
        ms \in {q \in SeqsUpTo(Members, MaxProps) : Cardinality(Names(q)) = Len(q)}}

\* text that is not a ComMethodCall
Malformed == [ok |-> FALSE, prog_id |-> "", method |-> "", properties |-> <<>>]

NoCall == [prog_id |-> "", method |-> "", properties |-> [n \in {} |-> JNull]]

\* HashMap<String, Value> from the members of the document: a later member
\* replaces an earlier one of the same name, and the order is not kept
ToHashMap(ms) ==
    [n \in Names(ms) |->
        LET last == CHOOSE i \in DOMAIN ms :
                        /\ ms[i].name = n
                        /\ \A j \in DOMAIN ms : ms[j].name = n => j <= i
        IN  ms[last].value]

\* serde_json::from_str::<ComMethodCall>
get_call_params_from_json_buffer(buffer) ==
    [prog_id |-> buffer.prog_id, method |-> buffer.method,
     properties |-> ToHashMap(buffer.properties)]

\* what a callee may read through the pointer to_pcwstr returns: the Vec it
\* points into is dropped when to_pcwstr returns, so the callee reads either
\* the characters still in the freed block or what has overwritten them,
\* which is the name of no class and of no member
Dangling == "<freed>"

to_pcwstr(s) == {s, Dangling}

\* one call to the COM runtime or to obj
ComCall(op, name, flags, arg, ok) == [op |-> op, name |-> name, flags |-> flags, arg |-> arg, ok |-> ok]

\* the wFlags of the three Invoke calls
PutFlags == "DISPATCH_PROPERTYPUT"

MethodFlags == "DISPATCH_METHOD"

\* (a variant of GetFlags that reads the property with the method flag)
GetFlags_method == "DISPATCH_METHOD"

GetFlags == "DISPATCH_PROPERTYGET"

\* the lines of standard output
SettingLine(name, value) == [text |-> "Setting property", name |-> name, value |-> value, status |-> <<>>]

CallingLine(name) == [text |-> "Calling method", name |-> name, value |-> JNull, status |-> <<>>]

ErrorCodeLine(status) == [text |-> "Error Code", name |-> "", value |-> JNull, status |-> status]

Init ==
    /\ pc = "start"
    /\ stdin \in Documents \cup {Malformed}
    /\ call = NoCall
    /\ remaining = {}
    /\ apartment = "none"
    /\ handle = "none"
    /\ comCalls = <<>>
    /\ stdout = <<>>
    /\ stderr = <<>>
    /\ error_code = <<>>
    /\ err = "none"
    /\ mpc = "idle"
    /\ mval = JNull
    /\ mvar = VEmpty
    /\ mstr = NoString

\* main: the document is read and decoded; a document that does not decode
\* panics (expect)
Decode ==
    /\ pc = "start"
    /\ IF stdin.ok
       THEN /\ call' = get_call_params_from_json_buffer(stdin)
            /\ remaining' = DOMAIN call'.properties
            /\ pc' = "co_init"
            /\ UNCHANGED stderr
       ELSE /\ pc' = "panicked"
            /\ stderr' = Append(stderr, "Failed to deserialize ComMethodCall JSON")
            /\ UNCHANGED <<call, remaining>>
    /\ UNCHANGED <<stdin, apartment, handle, comCalls, stdout, error_code, err>>
    /\ UNCHANGED marshalVars

\* execute: let _ = CoInitialize(None); the result is dropped
CoInit ==
    /\ pc = "co_init"
    /\ \E ok \in BOOLEAN :
          /\ apartment' = IF ok THEN "initialized" ELSE "failed"
          /\ comCalls' = Append(comCalls, ComCall("CoInitialize", "", "", VEmpty, ok))
    /\ pc' = "clsid"
    /\ UNCHANGED <<stdin, call, remaining, handle, stdout, stderr, error_code, err>>
    /\ UNCHANGED marshalVars

\* execute: CLSIDFromProgID(to_pcwstr(prog_id))?
ResolveTarget ==
    /\ pc = "clsid"
    /\ \E read \in to_pcwstr(call.prog_id), registered \in BOOLEAN :
          LET ok == read = call.prog_id /\ registered
          IN  /\ comCalls' = Append(comCalls, ComCall("CLSIDFromProgID", read, "", VEmpty, ok))
              /\ pc' = IF ok THEN "create" ELSE "unwind"
              /\ err' = IF ok THEN err ELSE "CLSIDFromProgID"
    /\ UNCHANGED <<stdin, call, remaining, apartment, handle, stdout, stderr, error_code>>
    /\ UNCHANGED marshalVars

\* execute: CoCreateInstance(&clsid, None, CLSCTX_ALL)?; an instance is only
\* created in an initialized context
CreateInstance ==
    /\ pc = "create"
    /\ \E ok \in BOOLEAN :
          /\ ok => apartment = "initialized"
          /\ comCalls' = Append(comCalls, ComCall("CoCreateInstance", call.prog_id, "", VEmpty, ok))
          /\ handle' = IF ok THEN "held" ELSE handle
          /\ pc' = IF ok THEN "call_method" ELSE "unwind"
          /\ err' = IF ok THEN err ELSE "CoCreateInstance"
    /\ UNCHANGED <<stdin, call, remaining, apartment, stdout, stderr, error_code>>
    /\ UNCHANGED marshalVars

\* the keys `for (prop_name, prop_value) in properties` may yield next: a
\* HashMap iterates in the order of its randomly seeded hashes
NextKeys(rem) == rem

\* (a variant of AfterSetProperty that goes on after a failed set_property)
AfterSetProperty_ignore(ok) == "call_method"

\* call_method: set_property(obj, &prop_name, &prop_value)?
AfterSetProperty(ok) == IF ok THEN "call_method" ELSE "unwind"

\* (a variant of AfterInvokeMethod that goes on after a failed invocation)
AfterInvokeMethod_ignore(ok) == "status"

\* call_method: obj.Invoke(dispatch_id, .., DISPATCH_METHOD, ..)?
AfterInvokeMethod(ok) == IF ok THEN "status" ELSE "unwind"

\* one turn of call_method's loop: the line is printed, then set_property
\* resolves the name, converts the value and invokes the property put
SetProperty ==
    /\ pc = "call_method"
    /\ remaining # {}
    /\ \E k \in NextKeys(remaining), known \in BOOLEAN, accepted \in BOOLEAN :
        \E read \in to_pcwstr(k) :
          LET value == call.properties[k]
              resolved == read = k /\ known
              m == value_to_variant(value)
              ok == resolved /\ accepted
          IN  /\ stdout' = Append(stdout, SettingLine(k, value))
              /\ remaining' = remaining \ {k}
              /\ comCalls' = comCalls
                    \o <<ComCall("GetIDsOfNames", read, "", VEmpty, resolved)>>
                    \o (IF resolved
                        THEN <<ComCall("Invoke", k, PutFlags, m.variant, accepted)>>
                        ELSE <<>>)
              /\ stderr' = IF resolved THEN stderr \o m.diag ELSE stderr
              /\ pc' = AfterSetProperty(ok)
              /\ err' = IF ok THEN err ELSE IF resolved THEN "Invoke" ELSE "GetIDsOfNames"
    /\ UNCHANGED <<stdin, call, apartment, handle, error_code>>
    /\ UNCHANGED marshalVars

\* the rest of call_method, once the loop has ended: the method name is
\* resolved, the line is printed and the method is invoked
CallMethod ==
    /\ pc = "call_method"
    /\ remaining = {}
    /\ \E read \in to_pcwstr(call.method), known \in BOOLEAN, accepted \in BOOLEAN :
          LET resolved == read = call.method /\ known
          IN  /\ stdout' = IF resolved THEN Append(stdout, CallingLine(call.method)) ELSE stdout
              /\ comCalls' = comCalls
                    \o <<ComCall("GetIDsOfNames", read, "", VEmpty, resolved)>>
                    \o (IF resolved
                        THEN <<ComCall("Invoke", call.method, MethodFlags, VEmpty, accepted)>>
                        ELSE <<>>)
              /\ pc' = IF resolved THEN AfterInvokeMethod(accepted) ELSE "unwind"
              /\ err' = IF resolved /\ accepted THEN err ELSE IF resolved THEN "Invoke" ELSE "GetIDsOfNames"
    /\ UNCHANGED <<stdin, call, remaining, apartment, handle, stderr, error_code>>
    /\ UNCHANGED marshalVars

\* execute: get_property(&obj, "ErrorCode")
StatusMember == "ErrorCode"

\* get_property: the name is resolved, the property is read into result, and
\* result is converted to a String
GetProperty ==
    /\ pc = "status"
    /\ \E read \in to_pcwstr(StatusMember), known \in BOOLEAN, got \in BOOLEAN,
          result \in StatusVariants :
          \E conv \in get_property_convert(result) :
            LET resolved == read = StatusMember /\ known
                ok == resolved /\ got /\ conv.ok
            IN  /\ comCalls' = comCalls
                      \o <<ComCall("GetIDsOfNames", read, "", VEmpty, resolved)>>
                      \o (IF resolved
                          THEN <<ComCall("Invoke", StatusMember, GetFlags, IF got THEN result ELSE VEmpty, got)>>
                          ELSE <<>>)
                      \o (IF resolved /\ got
                          THEN <<ComCall("VariantToString", "", "", result, conv.ok)>>
                          ELSE <<>>)
                /\ error_code' = IF ok THEN conv.s ELSE error_code
                /\ pc' = IF ok THEN "print" ELSE "unwind"
                /\ err' = IF ok THEN err
                          ELSE IF ~resolved THEN "GetIDsOfNames"
                          ELSE IF ~got THEN "Invoke" ELSE "VariantToString"
    /\ UNCHANGED <<stdin, call, remaining, apartment, handle, stdout, stderr>>
    /\ UNCHANGED marshalVars

\* (a variant of FinishOutput that prints nothing)
FinishOutput_none(status) == <<>>

\* execute: println!("Error Code: {error_code}")
FinishOutput(status) == <<ErrorCodeLine(status)>>

\* execute: the status line is printed and CoUninitialize() is called, with
\* obj still in scope
Finish ==
    /\ pc = "print"
    /\ stdout' = stdout \o FinishOutput(error_code)
    /\ apartment' = "uninitialized"
    /\ comCalls' = Append(comCalls, ComCall("CoUninitialize", "", "", VEmpty, TRUE))
    /\ pc' = "scope_exit"
    /\ UNCHANGED <<stdin, call, remaining, handle, stderr, error_code, err>>
    /\ UNCHANGED marshalVars

\* execute: the unsafe block ends, obj is dropped (IUnknown::Release) and
\* Ok(()) is returned; main returns it
ScopeExit ==
    /\ pc = "scope_exit"
    /\ handle' = "released"
    /\ comCalls' = Append(comCalls, ComCall("Release", "", "", VEmpty, TRUE))
    /\ pc' = "exit_ok"
    /\ UNCHANGED <<stdin, call, remaining, apartment, stdout, stderr, error_code, err>>
    /\ UNCHANGED marshalVars

\* a `?` returns the error from execute: obj, when it was created, is
\* dropped; CoUninitialize is not reached; main returns the error, which the
\* runtime prints
ErrorReturn ==
    /\ pc = "unwind"
    /\ handle' = IF handle = "held" THEN "released" ELSE handle
    /\ comCalls' = IF handle = "held"
                   THEN Append(comCalls, ComCall("Release", "", "", VEmpty, TRUE))
                   ELSE comCalls
    /\ stderr' = Append(stderr, "Error: " \o err)
    /\ pc' = "exit_err"
    /\ UNCHANGED <<stdin, call, remaining, apartment, stdout, error_code, err>>
    /\ UNCHANGED marshalVars

Next ==
    \/ Decode
    \/ CoInit
    \/ ResolveTarget
    \/ CreateInstance
    \/ SetProperty
    \/ CallMethod
    \/ GetProperty
    \/ Finish
    \/ ScopeExit
    \/ ErrorReturn

Spec == Init /\ [][Next]_vars

(***************************************************************************)
(* The claims.  They read the record of calls, the output and the decoded  *)
(* descriptor; the flags are written out, so that no definition of the     *)
(* model is part of a claim's statement.                                   *)
(***************************************************************************)
IsInvoke(c, flags) == c.op = "Invoke" /\ c.flags = flags

Invocations(flags) == SelectSeq(comCalls, LAMBDA c : IsInvoke(c, flags))

CallsOf(op) == SelectSeq(comCalls, LAMBDA c : c.op = op)

\* the steps of the call: target resolution, member-name resolution, the
\* invocations and the conversion of the status
StepOps == {"CLSIDFromProgID", "CoCreateInstance", "GetIDsOfNames", "Invoke", "VariantToString"}

\* the names of the properties put so far, in the order of the puts
PutNames == [i \in DOMAIN Invocations("DISPATCH_PROPERTYPUT") |-> Invocations("DISPATCH_PROPERTYPUT")[i].name]

\* the names of the document's properties, in the order of the document
DocumentNames == [i \in DOMAIN stdin.properties |-> stdin.properties[i].name]

\* C1: whenever the method invocation is performed, every property of the
\* decoded call descriptor has had a successful property-put invocation
\* performed on the target before it.
C1_PutsBeforeMethod ==
    \A i \in DOMAIN comCalls :
        IsInvoke(comCalls[i], "DISPATCH_METHOD") =>
            \A n \in DOMAIN call.properties :
                \E j \in 1..(i - 1) :
                    /\ IsInvoke(comCalls[j], "DISPATCH_PROPERTYPUT")
                    /\ comCalls[j].name = n
                    /\ comCalls[j].ok

\* a method invocation after the puts of two properties
C1_Witness ==
    /\ Len(Invocations("DISPATCH_METHOD")) = 1
    /\ Cardinality(DOMAIN call.properties) = 2
    /\ Len(PutNames) = 2

\* C2 (as claimed): when the process concludes after the automation context
\* was initialized, the context has been torn down and the target handle
\* released, whichever step failed.
C2_ReleasedOnEveryPath ==
    (pc \in {"exit_ok", "exit_err"} /\ \E i \in DOMAIN comCalls : comCalls[i].op = "CoInitialize" /\ comCalls[i].ok)
        => (apartment = "uninitialized" /\ handle # "held")

\* C3: a failed step (target resolution, member-name resolution, property
\* put, method invocation, status read) is the last step of the run, and a
\* failed target resolution is followed by no property put.
C3_FailureIsTerminal ==
    /\ \A i \in DOMAIN comCalls :
          (comCalls[i].op \in StepOps /\ ~comCalls[i].ok) =>
              \A j \in DOMAIN comCalls : j > i => comCalls[j].op \notin StepOps
    /\ (\E i \in DOMAIN comCalls :
            comCalls[i].op \in {"CLSIDFromProgID", "CoCreateInstance"} /\ ~comCalls[i].ok)
          => Len(Invocations("DISPATCH_PROPERTYPUT")) = 0
    /\ (\E i \in DOMAIN comCalls : comCalls[i].op \in StepOps /\ ~comCalls[i].ok)
          => pc \in {"unwind", "exit_err"}

\* a run that ended after its first property put failed, with a property, the
\* method and the status read still to come
C3_Witness ==
    /\ pc = "exit_err"
    /\ remaining # {}
    /\ Len(Invocations("DISPATCH_PROPERTYPUT")) = 1
    /\ ~Invocations("DISPATCH_PROPERTYPUT")[1].ok

\* C4: a run on a descriptor with no properties in which every step
\* succeeds performs one method invocation, one status-property read and no
\* property put.
C4_EmptyProperties ==
    (pc = "exit_ok" /\ DOMAIN call.properties = {}) =>
        /\ Len(Invocations("DISPATCH_METHOD")) = 1
        /\ Len(Invocations("DISPATCH_PROPERTYGET")) = 1
        /\ Len(Invocations("DISPATCH_PROPERTYPUT")) = 0
        /\ Len(CallsOf("Invoke")) = 2

C4_Witness ==
    /\ pc = "exit_ok"
    /\ stdin.ok
    /\ stdin.properties = <<>>
    /\ \A i \in DOMAIN comCalls : comCalls[i].ok

\* C8 (as claimed): on a successful run standard output is exactly one
\* line, the Error Code line.
C8_SingleLine ==
    pc = "exit_ok" => (Len(stdout) = 1 /\ stdout[1].text = "Error Code")

\* C8 (amended): on a successful run standard output is one "Setting
\* property" line for each property of the descriptor, then one "Calling
\* method" line, then exactly one Error Code line carrying the status
\* string, which is the last line.
C8_LinesOfSuccessfulRun ==
    pc = "exit_ok" =>
        LET n == Cardinality(DOMAIN call.properties)
        IN  /\ Len(stdout) = n + 2
            /\ \A i \in 1..n :
                  /\ stdout[i].text = "Setting property"
                  /\ stdout[i].name \in DOMAIN call.properties
                  /\ stdout[i].value = call.properties[stdout[i].name]
            /\ \A i, j \in 1..n : stdout[i].name = stdout[j].name => i = j
            /\ stdout[n + 1].text = "Calling method"
            /\ stdout[n + 1].name = call.method
            /\ stdout[n + 2].text = "Error Code"
            /\ stdout[n + 2].status = error_code

C8_Witness ==
    /\ pc = "exit_ok"
    /\ Cardinality(DOMAIN call.properties) = 2
    /\ Len(stdout) = 4

\* C9 (as claimed): the automation context is initialized once before any
\* target resolution and torn down once, and it is never torn down while the
\* target handle is held.
C9_TeardownAfterRelease ==
    /\ handle = "held" => apartment # "uninitialized"
    /\ \A i \in DOMAIN comCalls :
          comCalls[i].op = "CLSIDFromProgID" =>
              \E j \in 1..(i - 1) : comCalls[j].op = "CoInitialize"
    /\ Len(CallsOf("CoInitialize")) <= 1
    /\ pc = "exit_ok" => (Len(CallsOf("CoInitialize")) = 1 /\ Len(CallsOf("CoUninitialize")) = 1)

\* C10 (as claimed): the property puts are performed in the order of the
\* properties in the document.
C10_PutsInDocumentOrder ==
    stdin.ok => PutNames = SubSeq(DocumentNames, 1, Len(PutNames))

(***************************************************************************)
(* The claims about value_to_variant and the conversion of the status,     *)
(* under MarshalSpec.                                                      *)
(***************************************************************************)
Marshaled == mpc \in {"variant", "string"}

\* C5: a Null, an Array or an Object is converted to the empty VARIANT, which
\* carries nothing of the input, and one diagnostic is written.
C5_StructuredToEmpty ==
    (Marshaled /\ mval.kind \in {"Null", "Array", "Object"}) =>
        /\ mvar.vt = "VT_EMPTY"
        /\ mvar.s = <<>> /\ mvar.i = 0 /\ mvar.halves = 0 /\ mvar.b = FALSE
        /\ Len(stderr) = 1

C5_Witness ==
    /\ mpc = "variant"
    /\ mval.kind = "Array"
    /\ mval.s # <<>>
    /\ Len(stderr) = 1

\* the VARIANT is a VT_I4 holding the low 32 bits of the word, read as
\* two's complement, and nothing was written to the error channel
NarrowedTo32(w) ==
    /\ mvar.vt = "VT_I4"
    /\ (mvar.i \div LimbBase) \in (0 - LimbTop)..(LimbTop - 1)
    /\ mvar.i % LimbBase = w[4]
    /\ (mvar.i \div LimbBase) % LimbBase = w[3]
    /\ stderr = <<>>

\* C6 (as claimed): every integral JSON number representable in 64 bits is
\* converted to a VT_I4 holding the number narrowed to 32 bits, without a
\* diagnostic.
C6_Integral64ToI4 ==
    (Marshaled /\ mval.kind = "Number"
        /\ (mval.repr \in {"PosInt", "NegInt"} \/ (mval.repr = "Float" /\ mval.halves % 2 = 0)))
        => NarrowedTo32(mval.limbs)

\* C6 (amended): every JSON number held as an integer in the signed 64-bit
\* range -2^63 .. 2^63-1 is converted to a VT_I4 holding the number narrowed
\* to 32 bits, without a diagnostic.
C6_SignedInteger64ToI4 ==
    (Marshaled /\ mval.kind = "Number"
        /\ (mval.repr = "NegInt" \/ (mval.repr = "PosInt" /\ mval.limbs[1] < LimbTop)))
        => NarrowedTo32(mval.limbs)

\* 2^31 + 5 is narrowed to -2^31 + 5
C6_Witness ==
    /\ mpc = "variant"
    /\ mval = JPosInt(<<0, 0, LimbTop, 5>>)
    /\ mvar.i < 0

\* an integer that fits a signed 32-bit value, and that value
Fits32(v) ==
    /\ v.kind = "Number"
    /\ \/ v.repr = "PosInt" /\ v.limbs[1] = 0 /\ v.limbs[2] = 0 /\ v.limbs[3] < LimbTop
       \/ v.repr = "NegInt" /\ v.limbs[1] = LimbBase - 1 /\ v.limbs[2] = LimbBase - 1
            /\ v.limbs[3] >= LimbTop

Int32Of(v) ==
    IF v.repr = "PosInt"
    THEN v.limbs[3] * LimbBase + v.limbs[4]
    ELSE (v.limbs[3] - LimbBase) * LimbBase + v.limbs[4]

\* C7 (as claimed): for an integer v that fits 32 bits, value_to_variant
\* followed by get_property's conversion yields the decimal string of v.
C7_RoundTrip ==
    (mpc = "string" /\ Fits32(mval)) => (mstr.ok /\ mstr.s = ToDecimal(Int32Of(mval)))

====
